---- MODULE Spec2Model ----
(***************************************************************************)
(* Model of comp.py (urbs scenario comparison).                            *)
(*                                                                         *)
(* File names, paths and scenario names are sequences of one-character     *)
(* strings, so that str.replace, fnmatch and sorted() are computed on      *)
(* characters as Python computes them.                                     *)
(***************************************************************************)
EXTENDS Integers, Sequences, FiniteSets, TLC

VARIABLES
    pc,                 \* position of the script
    folder,             \* names of the files in the processed directory
    folder0,            \* the directory's content before the first run
    main_result_files,  \* __main__'s result_files (return of glob_result_files)
    result_files,       \* compare_scenarios' parameter result_files
    scenario_names,     \* compare_scenarios' scenario_names
    costs,              \* list of cost tables, one per file read
    esums,              \* list of energy sum tables, one per file read
    costs_df,           \* costs after pd.concat and the cost filter
    created_df,         \* created after the used_processes filter
    outcome,            \* "running", "ok" or the exception that ended the run
    steps,              \* the steps of compare_scenarios executed in this run
    entries_dir,        \* get_most_recent_entry: the entries of search_dir
    recent              \* get_most_recent_entry: what the call returned

vars == <<pc, folder, folder0, main_result_files, result_files, scenario_names,
          costs, esums, costs_df, created_df, outcome, steps, entries_dir, recent>>

----------------------------------------------------------------------------
(* Bounds *)

MaxFiles == 3

MaxMtime == 3

----------------------------------------------------------------------------
(* Characters and strings *)

\* the characters used, in ascending code point order
Alphabet == <<" ", ".", "/", "_", "a", "b", "c", "d", "e", "f", "g", "h", "i",
              "j", "k", "l", "m", "n", "o", "p", "q", "r", "s", "t", "u", "v",
              "w", "x", "y", "z">>

\* the code point order of the characters, tabulated
Ord == [c \in {Alphabet[i] : i \in 1..Len(Alphabet)} |->
           CHOOSE i \in 1..Len(Alphabet) : Alphabet[i] = c]

\* Python's str < str: lexicographic by code point, a proper prefix is smaller
RECURSIVE StrLess(_, _)
StrLess(a, b) ==
    IF b = <<>> THEN FALSE
    ELSE IF a = <<>> THEN TRUE
    ELSE IF a[1] # b[1] THEN Ord[a[1]] < Ord[b[1]]
    ELSE StrLess(Tail(a), Tail(b))

StartsWith(s, p) == Len(s) >= Len(p) /\ SubSeq(s, 1, Len(p)) = p

EndsWith(s, p) == Len(s) >= Len(p) /\ SubSeq(s, Len(s) - Len(p) + 1, Len(s)) = p

\* Python's str.replace(old, new): every non-overlapping occurrence, left to right
RECURSIVE Replace(_, _, _)
Replace(s, old, new) ==
    IF Len(s) < Len(old) THEN s
    ELSE IF SubSeq(s, 1, Len(old)) = old
         THEN new \o Replace(SubSeq(s, Len(old) + 1, Len(s)), old, new)
         ELSE <<s[1]>> \o Replace(Tail(s), old, new)

Reverse(s) == [i \in 1..Len(s) |-> s[Len(s) + 1 - i]]

\* sorted() of a list of distinct strings
RECURSIVE Sorted(_)
Sorted(S) ==
    IF S = {} THEN <<>>
    ELSE LET m == CHOOSE x \in S : \A y \in S \ {x} : StrLess(x, y)
         IN  <<m>> \o Sorted(S \ {m})

Sep == <<"/">>

\* os.path.join(a, b) for a relative b
Join(a, b) == a \o Sep \o b

\* os.path.basename: what follows the last '/'
RECURSIVE Basename(_)
Basename(p) ==
    IF \E i \in 1..Len(p) : p[i] = "/"
    THEN Basename(SubSeq(p, (CHOOSE i \in 1..Len(p) : p[i] = "/") + 1, Len(p)))
    ELSE p

Range(s) == {s[i] : i \in 1..Len(s)}

----------------------------------------------------------------------------
(* Literals of the script *)

sScenario == <<"s", "c", "e", "n", "a", "r", "i", "o">>
sBase == <<"b", "a", "s", "e">>
sXlsx == <<".", "x", "l", "s", "x">>
sComparison == <<"c", "o", "m", "p", "a", "r", "i", "s", "o", "n">>
sUnderscore == <<"_">>
sSpace == <<" ">>

sS == <<"s">>
sA == <<"a">>
sSummary == <<"s", "u", "m", "m", "a", "r", "y">>
sNotes == <<"n", "o", "t", "e", "s">>
sCsv == <<".", "c", "s", "v">>
sPng == <<".", "p", "n", "g">>
sPdf == <<".", "p", "d", "f">>

\* the directory given on the command line
directory == <<"d">>

----------------------------------------------------------------------------
(* Inputs: the files a result directory may hold and what a file may hold *)

\* result files of urbs scenarios, and other files found beside them
FileNames ==
    { sScenario \o sUnderscore \o sBase \o sXlsx,
      sScenario \o sUnderscore \o sA \o sXlsx,
      sScenario \o sUnderscore \o sScenario \o sUnderscore \o sBase \o sXlsx,
      sSummary \o sXlsx,
      sNotes \o sXlsx,
      sScenario \o sUnderscore \o sA \o sCsv }

Folders == {F \in SUBSET FileNames : Cardinality(F) <= MaxFiles}

CostTypes == {"Inv", "Revenue"}

\* the 'Costs' sheet of one scenario: an investment is a cost (>= 0), a
\* revenue is a negative cost (<= 0)
CostTables == {[Inv |-> i, Revenue |-> r] : i \in {0, 1}, r \in {-1, 0}}

Processes == {"Photovoltaics"}

\* the 'Commodity sums' sheet: whether it has the 'Created' and
\* 'Storage'/'Retrieved' rows, and the energy created by each process
EsumTables ==
    {[rows |-> TRUE, created |-> cr] : cr \in [Processes -> {0, 1}]}
      \cup {[rows |-> FALSE, created |-> [p \in Processes |-> 0]]}

\* sheets, columns and labels read inside the loop over result_files
LoopLabels == {"Costs", "Commodity sums", "Process caps", "pro", "Total",
               "StRupertMayer"}

----------------------------------------------------------------------------
(* glob_result_files *)

\* faulty variant: the pattern '*.xlsx'
glob_pattern_AllXlsx == [pre |-> <<>>, suf |-> sXlsx]

\* a glob pattern with one '*': what precedes it and what follows it
glob_pattern == [pre |-> sS, suf |-> sXlsx]

\* fnmatch of a name against pre*suf
FnMatch(name, pat) ==
    /\ Len(name) >= Len(pat.pre) + Len(pat.suf)
    /\ StartsWith(name, pat.pre)
    /\ EndsWith(name, pat.suf)

\* glob.glob(os.path.join(dirname, pattern)): '*' does not match a leading dot
Glob(dirname, pat, content) ==
    { Join(dirname, n) : n \in { m \in content :
          /\ FnMatch(m, pat)
          /\ (m # <<>> /\ m[1] = "." => pat.pre # <<>> /\ pat.pre[1] = ".") } }

glob_result_files(folder_name, content) ==
    Sorted(Glob(folder_name, glob_pattern, content))

----------------------------------------------------------------------------
(* compare_scenarios *)

\* the scenario name of one result file
ScenarioName(rf) ==
    Replace(Replace(Replace(Basename(rf), sUnderscore, sSpace),
                    sXlsx, <<>>),
            sScenario \o sSpace, <<>>)

\* list.index(x): the first position of x (1-based), 0 for ValueError
Index(list, x) ==
    IF x \in Range(list)
    THEN CHOOSE i \in 1..Len(list) :
             list[i] = x /\ \A j \in 1..(i - 1) : list[j] # x
    ELSE 0

\* list.pop(i): the list without position i
Pop(list, i) == SubSeq(list, 1, i - 1) \o SubSeq(list, i + 1, Len(list))

\* faulty variant: list.insert(0, list[i]), the element is not popped
MoveToFront_NoPop(list, i) == <<list[i]>> \o list

\* list.insert(0, list.pop(i))
MoveToFront(list, i) == <<list[i]>> \o Pop(list, i)

RECURSIVE SumSeq(_)
SumSeq(s) == IF s = <<>> THEN 0 ELSE s[1] + SumSeq(Tail(s))

\* DataFrame.sum() of one column
ColumnSum(data, c) == SumSeq([i \in 1..Len(data) |-> data[i][c]])

NoFrame == [index |-> <<>>, columns |-> {}, data |-> <<>>]

\* the names of the files written by one run
OutputNames == {sComparison \o sPng, sComparison \o sPdf, sComparison \o sXlsx}

\* the paths of the files the directory may ever hold
Paths == {Join(directory, n) : n \in FileNames \cup OutputNames}

\* ScenarioName of every path, tabulated
NameOf == [rf \in Paths |-> ScenarioName(rf)]

----------------------------------------------------------------------------
(* __main__ and compare_scenarios, step by step *)

Init ==
    /\ pc = "start"
    /\ folder \in Folders
    /\ folder0 = folder
    /\ main_result_files = <<>>
    /\ result_files = <<>>
    /\ scenario_names = <<>>
    /\ costs = <<>>
    /\ esums = <<>>
    /\ costs_df = NoFrame
    /\ created_df = NoFrame
    /\ outcome = "running"
    /\ steps = <<>>
    /\ entries_dir = {}
    /\ recent = <<>>

\* __main__: glob the directory, call compare_scenarios on the reversed list
Main ==
    /\ pc = "start"
    /\ main_result_files' = glob_result_files(directory, folder)
    /\ result_files' = Reverse(main_result_files')
    /\ pc' = "names"
    /\ UNCHANGED <<folder, folder0, scenario_names, costs, esums, costs_df,
                   created_df, outcome, steps, entries_dir, recent>>

\* derive list of scenario names
DeriveNames ==
    /\ pc = "names"
    /\ scenario_names' = [i \in 1..Len(result_files) |-> NameOf[result_files[i]]]
    /\ steps' = Append(steps, "names")
    /\ pc' = "reorder"
    /\ UNCHANGED <<folder, folder0, main_result_files, result_files, costs, esums,
                   costs_df, created_df, outcome, entries_dir, recent>>

\* faulty variant: only scenario_names is reordered
Reorder_NamesOnly ==
    /\ pc = "reorder"
    /\ LET base_scenario == Index(scenario_names, sBase)
       IN  IF base_scenario # 0
           THEN scenario_names' = MoveToFront(scenario_names, base_scenario)
           ELSE UNCHANGED scenario_names
    /\ steps' = Append(steps, "reorder")
    /\ pc' = "read"
    /\ UNCHANGED <<folder, folder0, main_result_files, result_files, costs, esums,
                   costs_df, created_df, outcome, entries_dir, recent>>

\* find base scenario and put at first position
Reorder ==
    /\ pc = "reorder"
    /\ LET base_scenario == Index(scenario_names, sBase)
       IN  IF base_scenario # 0
           THEN /\ result_files' = MoveToFront(result_files, base_scenario)
                /\ scenario_names' = MoveToFront(scenario_names, base_scenario)
           ELSE UNCHANGED <<result_files, scenario_names>>
    /\ steps' = Append(steps, "reorder")
    /\ pc' = "read"
    /\ UNCHANGED <<folder, folder0, main_result_files, costs, esums, costs_df,
                   created_df, outcome, entries_dir, recent>>

\* faulty variant: the loop over result_files may run before the reorder
Load_BeforeReorder ==
    /\ pc \in {"reorder", "read"}
    /\ Len(costs) < Len(result_files)
    /\ LET rf == result_files[Len(costs) + 1]
       IN  \E cost \in CostTables, esum \in EsumTables :
               /\ costs' = Append(costs, [file |-> rf, cost |-> cost])
               /\ esums' = Append(esums, [file |-> rf, esum |-> esum])
    /\ steps' = IF "load" \in Range(steps) THEN steps ELSE Append(steps, "load")
    /\ UNCHANGED <<pc, folder, folder0, main_result_files, result_files,
                   scenario_names, costs_df, created_df, outcome, entries_dir, recent>>

\* one iteration of the loop over result_files: the three sheets are parsed
Load ==
    /\ pc = "read"
    /\ Len(costs) < Len(result_files)
    /\ LET rf == result_files[Len(costs) + 1]
       IN  \E cost \in CostTables, esum \in EsumTables :
               /\ costs' = Append(costs, [file |-> rf, cost |-> cost])
               /\ esums' = Append(esums, [file |-> rf, esum |-> esum])
    /\ steps' = IF "load" \in Range(steps) THEN steps ELSE Append(steps, "load")
    /\ UNCHANGED <<pc, folder, folder0, main_result_files, result_files,
                   scenario_names, costs_df, created_df, outcome, entries_dir, recent>>

\* one iteration of the loop: a sheet, column or label is missing from the file
LoadError ==
    /\ pc = "read"
    /\ Len(costs) < Len(result_files)
    /\ \E missing \in LoopLabels : outcome' = "missing_error"
    /\ steps' = IF "load" \in Range(steps) THEN steps ELSE Append(steps, "load")
    /\ pc' = "failed"
    /\ UNCHANGED <<folder, folder0, main_result_files, result_files, scenario_names,
                   costs, esums, costs_df, created_df, entries_dir, recent>>

\* faulty variant: pd.concat of no objects gives an empty frame
Concat_NoRaise ==
    /\ pc = "read"
    /\ Len(costs) = Len(result_files)
    /\ steps' = Append(steps, "concat")
    /\ costs_df' = [index |-> scenario_names,
                    columns |-> CostTypes,
                    data |-> [i \in 1..Len(costs) |-> costs[i].cost]]
    /\ pc' = "analyse"
    /\ UNCHANGED <<folder, folder0, main_result_files, result_files, scenario_names,
                   costs, esums, created_df, outcome, entries_dir, recent>>

\* merge everything into one DataFrame each; pd.concat of no objects raises
Concat ==
    /\ pc = "read"
    /\ Len(costs) = Len(result_files)
    /\ steps' = Append(steps, "concat")
    /\ IF costs = <<>>
       THEN /\ outcome' = "concat_error"
            /\ pc' = "failed"
            /\ UNCHANGED costs_df
       ELSE /\ costs_df' = [index |-> scenario_names,
                            columns |-> CostTypes,
                            data |-> [i \in 1..Len(costs) |-> costs[i].cost]]
            /\ pc' = "analyse"
            /\ UNCHANGED outcome
    /\ UNCHANGED <<folder, folder0, main_result_files, result_files, scenario_names,
                   costs, esums, created_df, entries_dir, recent>>

\* only keep cost types with costs.sum() > 0
CostFilter(df) ==
    [df EXCEPT !.columns = {c \in df.columns : ColumnSum(df.data, c) > 0}]

\* created: the processes with created.sum(axis=1) > 0
UsedProcesses(es) ==
    {p \in Processes :
        SumSeq([i \in 1..Len(es) |-> es[i].esum.created[p]]) > 0}

\* ANALYSE: the cost filter, then created and sto_sums
Analyse ==
    /\ pc = "analyse"
    /\ steps' = Append(steps, "filter")
    /\ costs_df' = CostFilter(costs_df)
    /\ IF \A i \in 1..Len(esums) : ~esums[i].esum.rows
       THEN /\ outcome' = "missing_error"
            /\ pc' = "failed"
            /\ UNCHANGED created_df
       ELSE /\ created_df' = [index |-> scenario_names,
                              columns |-> UsedProcesses(esums),
                              data |-> [i \in 1..Len(esums) |-> esums[i].esum.created]]
            /\ pc' = "plot"
            /\ UNCHANGED outcome
    /\ UNCHANGED <<folder, folder0, main_result_files, result_files, scenario_names,
                   costs, esums, entries_dir, recent>>

\* PLOT: DataFrame.plot of a frame without columns raises
Plot ==
    /\ pc = "plot"
    /\ steps' = Append(steps, "plot")
    /\ IF costs_df.columns = {} \/ created_df.columns = {}
       THEN /\ outcome' = "plot_error"
            /\ pc' = "failed"
       ELSE /\ pc' = "save"
            /\ UNCHANGED outcome
    /\ UNCHANGED <<folder, folder0, main_result_files, result_files, scenario_names,
                   costs, esums, costs_df, created_df, entries_dir, recent>>

\* savefig of png and pdf, then the REPORT spreadsheet
Save ==
    /\ pc = "save"
    /\ steps' = Append(steps, "save")
    /\ folder' = folder \cup OutputNames
    /\ outcome' = "ok"
    /\ pc' = "done"
    /\ UNCHANGED <<folder0, main_result_files, result_files, scenario_names,
                   costs, esums, costs_df, created_df, entries_dir, recent>>

\* the script is run again on the same directory
Rerun ==
    /\ pc \in {"done", "failed"}
    /\ pc' = "start"
    /\ main_result_files' = <<>>
    /\ result_files' = <<>>
    /\ scenario_names' = <<>>
    /\ costs' = <<>>
    /\ esums' = <<>>
    /\ costs_df' = NoFrame
    /\ created_df' = NoFrame
    /\ outcome' = "running"
    /\ steps' = <<>>
    /\ UNCHANGED <<folder, folder0, entries_dir, recent>>

Next ==
    \/ Main
    \/ DeriveNames
    \/ Reorder
    \/ Load
    \/ LoadError
    \/ Concat
    \/ Analyse
    \/ Plot
    \/ Save
    \/ Rerun

Spec == Init /\ [][Next]_vars

----------------------------------------------------------------------------
(* get_most_recent_entry *)

sResult == <<"r", "e", "s", "u", "l", "t">>
sStar == [pre |-> <<>>, suf |-> <<>>]

\* names of the entries a search_dir may hold; one of them is hidden
EntryNames == {<<"a">>, <<"b">>, <<".", "c">>}

\* a directory: entries with distinct names, each with its 'modified' time
Directories ==
    {D \in SUBSET [name : EntryNames, mtime : 1..MaxMtime] :
        \A d, e \in D : d.name = e.name => d = e}

\* os.path.getmtime of a path of search_dir
Mtime(D, path) == (CHOOSE e \in D : e.name = Basename(path)).mtime

\* the orders in which glob.glob may list the paths of S
Listings(S) ==
    {l \in [1..Cardinality(S) -> S] : \A i, j \in 1..Cardinality(S) : l[i] = l[j] => i = j}

\* list.sort(key=...): stable, ascending by key
RECURSIVE SortByMtime(_, _)
SortByMtime(D, l) ==
    IF l = <<>> THEN <<>>
    ELSE LET m == CHOOSE i \in 1..Len(l) :
                    /\ \A j \in 1..Len(l) : Mtime(D, l[i]) <= Mtime(D, l[j])
                    /\ \A j \in 1..(i - 1) : Mtime(D, l[i]) < Mtime(D, l[j])
         IN  <<l[m]>> \o SortByMtime(D, Pop(l, m))

InitRecent ==
    /\ pc = "recent"
    /\ entries_dir \in Directories
    /\ recent = <<>>
    /\ folder = {}
    /\ folder0 = {}
    /\ main_result_files = <<>>
    /\ result_files = <<>>
    /\ scenario_names = <<>>
    /\ costs = <<>>
    /\ esums = <<>>
    /\ costs_df = NoFrame
    /\ created_df = NoFrame
    /\ outcome = "running"
    /\ steps = <<>>

\* get_most_recent_entry('result'): entries[-1] of the sorted listing
get_most_recent_entry ==
    /\ pc = "recent"
    /\ \E entries \in Listings(Glob(sResult, sStar, {e.name : e \in entries_dir})) :
           LET sorted == SortByMtime(entries_dir, entries)
           IN  IF sorted = <<>>
               THEN /\ outcome' = "index_error"
                    /\ pc' = "recent_failed"
                    /\ UNCHANGED recent
               ELSE /\ recent' = sorted[Len(sorted)]
                    /\ pc' = "recent_done"
                    /\ UNCHANGED outcome
    /\ UNCHANGED <<folder, folder0, main_result_files, result_files, scenario_names,
                   costs, esums, costs_df, created_df, steps, entries_dir>>

NextRecent == get_most_recent_entry

SpecRecent == InitRecent /\ [][NextRecent]_vars

----------------------------------------------------------------------------
(* Properties of the reorder step *)

Done(step) == step \in Range(steps)

\* the list compare_scenarios was called with, and the names derived from it
ArgFiles == Reverse(main_result_files)
ArgNames == [i \in 1..Len(ArgFiles) |-> NameOf[ArgFiles[i]]]

Count(x, list) == Cardinality({i \in 1..Len(list) : list[i] = x})

SameElements(a, b) ==
    \A x \in Range(a) \cup Range(b) : Count(x, a) = Count(x, b)

\* C1: when a derived scenario name is 'base', after the reorder step 'base'
\* is first in scenario_names, scenario_names[i] is the name derived from
\* result_files[i] for every i, and every table loaded afterwards is read from
\* result_files[i] and keyed with the name of that file.
C1_BaseFirstAligned ==
    (Done("reorder") /\ sBase \in Range(scenario_names)) =>
        /\ scenario_names[1] = sBase
        /\ Len(scenario_names) = Len(result_files)
        /\ \A i \in 1..Len(result_files) :
               scenario_names[i] = NameOf[result_files[i]]
        /\ \A i \in 1..Len(costs) :
               /\ costs[i].file = result_files[i]
               /\ esums[i].file = result_files[i]
        /\ costs_df # NoFrame =>
               /\ Len(costs_df.index) = Len(costs)
               /\ \A i \in 1..Len(costs) :
                      /\ costs_df.index[i] = NameOf[costs[i].file]
                      /\ costs_df.data[i] = costs[i].cost

\* C1 witness: 'base' was not first in the list passed in, the reorder moved
\* it, and the tables were loaded and concatenated.
C1_Witness ==
    /\ pc = "analyse"
    /\ Index(ArgNames, sBase) > 1
    /\ Len(result_files) >= 3
    /\ costs_df # NoFrame

\* C9: the reorder keeps the elements of both lists with their
\* multiplicities, keeps the relative order of all elements other than the
\* first one named 'base', and changes nothing when no name is 'base'.
C9_ReorderMovesOne ==
    Done("reorder") =>
        LET b == Index(ArgNames, sBase)
        IN  /\ SameElements(result_files, ArgFiles)
            /\ SameElements(scenario_names, ArgNames)
            /\ b = 0 => result_files = ArgFiles /\ scenario_names = ArgNames
            /\ b # 0 => /\ Pop(result_files, 1) = Pop(ArgFiles, b)
                        /\ Pop(scenario_names, 1) = Pop(ArgNames, b)

\* C9 witness: 'base' is moved from the second position of three, past one
\* scenario and before another one.
C9_Witness ==
    /\ pc = "read"
    /\ Len(ArgFiles) = 3
    /\ Index(ArgNames, sBase) = 2
    /\ ArgNames[3] # sBase
    /\ result_files # ArgFiles

----------------------------------------------------------------------------
(* Order of the steps *)

StepOrder == <<"names", "reorder", "load", "concat", "filter", "plot", "save">>

Rank(step) == CHOOSE i \in 1..Len(StepOrder) : StepOrder[i] = step

\* C2 as stated: the reorder happens after the load, concatenate and filter
\* steps (and before the plot).
C2_ReorderAfterFilter ==
    \A i \in 1..Len(steps) :
        steps[i] = "reorder" =>
            \A s \in {"load", "concat", "filter"} :
                \E j \in 1..(i - 1) : steps[j] = s

\* C2 amended: the steps run in the order names, reorder, load, concatenate,
\* filter, plot, save; the reorder happens before every load, concatenate,
\* filter and plot step.
C2_ReorderBeforeLoad ==
    /\ \A i, j \in 1..Len(steps) : i < j => Rank(steps[i]) < Rank(steps[j])
    /\ \A i \in 1..Len(steps) :
           steps[i] \in {"load", "concat", "filter", "plot", "save"} =>
               \E j \in 1..(i - 1) : steps[j] = "reorder"

\* C2 witness: a complete run, from the names to the plot and the report.
C2_Witness ==
    /\ pc = "done"
    /\ steps = StepOrder

----------------------------------------------------------------------------
(* glob_result_files and the files written by a run *)

\* the pattern named by the docstring of glob_result_files
DocPattern == [pre |-> sScenario \o sUnderscore, suf |-> sXlsx]

\* C3 as stated: glob_result_files returns exactly the files of the folder
\* that match 'scenario_*.xlsx', in ascending order.
C3_GlobExactlyScenarioFiles ==
    pc # "start" =>
        main_result_files = Sorted(Glob(directory, DocPattern, folder))

\* C10: the files written by a run are never returned by glob_result_files:
\* in every run the list of result files is the one of the directory as it
\* was before the first run, and holds none of the output files.
C10_OutputsNeverGlobbed ==
    pc # "start" =>
        /\ main_result_files = glob_result_files(directory, folder0)
        /\ \A n \in OutputNames : Join(directory, n) \notin Range(main_result_files)

\* C10 witness: a second run has globbed the directory after the first run
\* wrote its three output files into it.
C10_Witness ==
    /\ pc = "names"
    /\ OutputNames \subseteq folder
    /\ folder0 # folder
    /\ main_result_files # <<>>

----------------------------------------------------------------------------
(* Scenario names *)

\* the name with only the '.xlsx' extension and the 'scenario ' prefix dropped
StripName(base) ==
    LET spaced == Replace(base, sUnderscore, sSpace)
        noext == IF EndsWith(spaced, sXlsx)
                 THEN SubSeq(spaced, 1, Len(spaced) - Len(sXlsx))
                 ELSE spaced
    IN  IF StartsWith(noext, sScenario \o sSpace)
        THEN SubSeq(noext, Len(sScenario) + 2, Len(noext))
        ELSE noext

\* C7 as stated: the scenario name is the basename with '_' replaced by
\* spaces, the extension dropped from the end and the prefix 'scenario '
\* dropped from the start, and nothing else removed.
C7_OnlyPrefixAndExtensionDropped ==
    Done("names") =>
        \A i \in 1..Len(result_files) :
            scenario_names[i] = StripName(Basename(result_files[i]))

\* C8 as stated: the scenario names derived from the distinct files of one
\* directory are pairwise distinct, and at most one of them is 'base'.
C8_NamesDistinct ==
    Done("names") =>
        \A i, j \in 1..Len(scenario_names) :
            scenario_names[i] = scenario_names[j] => i = j

----------------------------------------------------------------------------
(* The cost filter and the outcomes of a run *)

\* C4 as stated: a cost type is a column of the filtered costs table if and
\* only if the sum of its values over all scenarios is not zero.
C4_NonZeroSumKept ==
    Done("filter") =>
        \A c \in CostTypes :
            c \in costs_df.columns <=> ColumnSum(costs_df.data, c) # 0

----------------------------------------------------------------------------
(* get_most_recent_entry *)

\* C6 as stated, for the calls that return (on a directory without visible
\* entries entries[-1] raises IndexError and nothing is returned): the value
\* returned is an entry of search_dir whose modification time is at least
\* that of every entry of the directory.
C6_MostRecentOfAll ==
    pc = "recent_done" =>
        \E e \in entries_dir :
            /\ recent = Join(sResult, e.name)
            /\ \A f \in entries_dir : e.mtime >= f.mtime

====
